---- MODULE Spec2Model ----
(***************************************************************************)
(* DockerBoard: registration with e-mail verification, JWT access/refresh  *)
(* sessions, the users table behind them, and the posts of the board.      *)
(*                                                                         *)
(* Spec is the whole account API; SpecRegister, SpecSession and SpecPosts  *)
(* are registration, sessions and the board on their own, each with the    *)
(* full set of its inputs.  SpecSignup, SpecVerify and SpecDelete are the  *)
(* same resolvers called by requests that overlap: a request is called,    *)
(* and its one SQL statement runs later, after an await.                   *)
(* SpecRefresh is refreshToken, with its two statements, and logout; and   *)
(* SpecStartup is initializeDatabase as the first requests of a new        *)
(* process call it.                                                        *)
(*                                                                         *)
(* Every resolver is a function from the users table, the clock and its   *)
(* arguments to its response and the table it leaves; an action applies    *)
(* one resolver to the current state.  The variables below the table are   *)
(* history: what clients have been handed and what has succeeded so far.   *)
(*                                                                         *)
(* Time is the wall clock in whole seconds: sqlite's datetime('now') and   *)
(* jsonwebtoken's iat/exp both have one-second resolution.                 *)
(* The column updated_at is written by the UPDATE statements and read by   *)
(* nothing; it is not part of the state.                                   *)
(***************************************************************************)
EXTENDS Integers, Sequences, FiniteSets, TLC

\* ------------------------------------------------------------------ bounds
MaxUsers    == 2   \* rows the users table may hold
MaxIssued   == 2   \* distinct token pairs handed out in one behaviour
MaxPosts    == 2   \* rows ever inserted into the posts table
MaxRequests == 3   \* requests one behaviour of overlapping requests makes

\* --------------------------------------------------------- program constants
ACCESS_TOKEN_EXPIRES  == 900       \* "15m"
REFRESH_TOKEN_EXPIRES == 604800    \* "7d"
VERIFICATION_EXPIRES  == 3600      \* datetime('now', '+1 hour')
JWT_SECRET            == "secret"
MIN_PASSWORD_LENGTH   == 8
MIN_USERNAME_LENGTH   == 3
MAX_USERNAME_LENGTH   == 20
MAX_TITLE_LENGTH      == 200
MAX_CONTENT_LENGTH    == 10000

\* SQL NULL of each nullable column, and JavaScript's null for a user id.
NULL_TOKEN == -1                    \* users.verification_token
NULL_TIME  == -1                    \* users.verification_expires
NULL_JWT   == [type |-> "null"]     \* users.refresh_token
NULL_ID    == 0                     \* no row / no caller; ids start at 1
EMPTY_TOKEN == 0                    \* the empty string as a verifyEmail argument
NOT_A_NUMBER == -1                  \* NaN; post ids start at 1

\* ------------------------------------------------------------------- inputs
\* Strings that the validators look into are sequences of characters.
Lower  == {"a", "b", "c", "d", "e", "f", "l", "o", "i"}
Upper  == {"A", "B", "P"}
Digit  == {"0", "1", "2", "3"}
Hangul == {"U+AC00", "U+D7A3"}   \* the two ends of the Hangul syllable range
Space  == {" "}

EmailA   == <<"a", "@", "b", ".", "c">>
EmailD   == <<"d", "@", "e", ".", "f">>
EmailBad == <<"a", "@", "b">>
EmailUnknown == <<"f", "@", "e", ".", "d">>

NameAlice == <<"a", "l", "i">>
NameBob   == <<"b", "o", "b">>
NameBad   == <<"a", " ", "b">>

\* A third person, who registers and never follows the link in the mail.
EmailCarol == <<"c", "@", "o", ".", "l">>
NameCarol  == <<"c", "a", "l">>

PwGood  == <<"P", "a", "b", "c", "d", "e", "f", "1">>
PwOther == <<"B", "a", "b", "c", "d", "e", "f", "2">>
PwWeak  == <<"a", "b", "c", "d", "e", "f", "a", "b">>

\* More strings for the validators: two "@", a blank in the local part; a name
\* of two characters, one of twenty-one, one in Hangul; a password of seven
\* characters and one of eight without a digit.
EmailTwoAt == <<"a", "@", "@", "b", ".", "c">>
EmailBlank == <<"a", " ", "@", "b", ".", "c">>
NameShort  == <<"a", "b">>
NameLong   == [i \in 1..(MAX_USERNAME_LENGTH + 1) |-> "a"]
NameHangul == <<"U+AC00", "U+D7A3", "_">>
PwShort    == <<"P", "a", "b", "c", "d", "e", "1">>
PwNoDigit  == <<"P", "a", "b", "c", "d", "e", "f", "a">>
RegisterEmails    == {EmailA, EmailD, EmailBad, EmailTwoAt, EmailBlank}
RegisterUsernames == {NameAlice, NameBob, NameBad, NameShort, NameLong, NameHangul}
RegisterPasswords == {PwGood, PwWeak, PwShort, PwNoDigit}

\* What register is called with: two people, a third who shares the e-mail of
\* the first and the name of the second, and one call per validator that
\* rejects it.
Registration(email, username, password) ==
    [email |-> email, username |-> username, password |-> password]
Registrations ==
    { Registration(EmailA, NameAlice, PwGood),
      Registration(EmailD, NameBob, PwGood),
      Registration(EmailA, NameBob, PwGood),
      Registration(EmailBad, NameAlice, PwGood),
      Registration(EmailA, NameBad, PwGood),
      Registration(EmailA, NameAlice, PwWeak) }

\* A title or a content: body characters between the first and the last that is
\* not white space, and pad characters of white space around them.
Text(body, pad) == [body |-> body, pad |-> pad]
length(text) == text.body + text.pad
trim(text) == Text(text.body, 0)
Titles ==
    { Text(5, 0), Text(0, 0), Text(0, 1), Text(MAX_TITLE_LENGTH, 0),
      Text(MAX_TITLE_LENGTH - 1, 2), Text(MAX_TITLE_LENGTH + 1, 0) }
Contents ==
    { Text(5, 0), Text(0, 2), Text(MAX_CONTENT_LENGTH, 0), Text(MAX_CONTENT_LENGTH, 1) }

\* The id argument of deletePost, a string.
PostIdArgs == { <<"1">>, <<"2">>, <<"x">>, <<"1", "x">> }

\* The author argument of the older addPost, a string: the digits of a user id,
\* and the digits of a number that is nobody's id.
LegacyAuthors == {1, MaxUsers + 2}

\* What the older addPost is called with: a post like any other, and one
\* without a title.
LegacyTitles == { Text(5, 0), Text(0, 0) }
LegacyContents == { Text(5, 0) }

\* The instants at which a behaviour observes the clock: the start, and then
\* either the next second or the seconds around the end of one lifetime that
\* started at 0.  A behaviour follows one of these plans.
ClockPlans ==
    { {0, 1},
      {0, ACCESS_TOKEN_EXPIRES - 1, ACCESS_TOKEN_EXPIRES},
      {0, VERIFICATION_EXPIRES - 1, VERIFICATION_EXPIRES, VERIFICATION_EXPIRES + 1},
      {0, REFRESH_TOKEN_EXPIRES - 1, REFRESH_TOKEN_EXPIRES} }

\* ---------------------------------------------------------------- lib/auth.ts
NoSpaceAt(c) == c \notin Space /\ c # "@"

\* /^[^\s@]+@[^\s@]+\.[^\s@]+$/
validateEmail(email) ==
    \E a \in 1..Len(email), d \in 1..Len(email) :
        /\ email[a] = "@"
        /\ email[d] = "."
        /\ 1 < a /\ a + 1 < d /\ d < Len(email)
        /\ \A i \in 1..Len(email) : i # a => NoSpaceAt(email[i])

validatePassword(password) ==
    IF Len(password) < MIN_PASSWORD_LENGTH
        THEN [valid |-> FALSE, message |-> "PASSWORD_TOO_SHORT"]
    ELSE IF ~ ( /\ \E i \in 1..Len(password) : password[i] \in Lower
                /\ \E i \in 1..Len(password) : password[i] \in Upper
                /\ \E i \in 1..Len(password) : password[i] \in Digit )
        THEN [valid |-> FALSE, message |-> "PASSWORD_NEEDS_UPPER_LOWER_DIGIT"]
    ELSE [valid |-> TRUE, message |-> "OK"]

validateUsername(username) ==
    IF Len(username) < MIN_USERNAME_LENGTH
        THEN [valid |-> FALSE, message |-> "USERNAME_TOO_SHORT"]
    ELSE IF Len(username) > MAX_USERNAME_LENGTH
        THEN [valid |-> FALSE, message |-> "USERNAME_TOO_LONG"]
    ELSE IF ~ \A i \in 1..Len(username) :
                username[i] \in Lower \cup Upper \cup Digit \cup Hangul \cup {"_"}
        THEN [valid |-> FALSE, message |-> "USERNAME_BAD_CHARACTERS"]
    ELSE [valid |-> TRUE, message |-> "OK"]

\* bcrypt: the hash determines the password it was made from and nothing else
\* verifies against it.
hashPassword(password) == [bcrypt |-> password]
verifyPassword(password, hashedPassword) == hashedPassword = [bcrypt |-> password]

\* jwt.sign(payload, secret, {expiresIn}): HS256 over the claims, so the token is
\* a function of userId, type, iat and the key; exp = iat + expiresIn.
JwtSign(userId, type, expiresIn, key, t) ==
    [userId |-> userId, type |-> type, iat |-> t, exp |-> t + expiresIn, key |-> key]

\* jwt.verify(token, secret): throws on a wrong signature and once the clock
\* has reached exp.
\* Variant: the expiry test lets the expiry instant itself through.
JwtVerifies_inclusive(token, t) ==
    /\ token # NULL_JWT
    /\ token.key = JWT_SECRET
    /\ t <= token.exp

JwtVerifies(token, t) ==
    /\ token # NULL_JWT
    /\ token.key = JWT_SECRET
    /\ t < token.exp

generateAccessToken(userId, t) ==
    JwtSign(userId, "access", ACCESS_TOKEN_EXPIRES, JWT_SECRET, t)

generateRefreshToken(userId, t) ==
    JwtSign(userId, "refresh", REFRESH_TOKEN_EXPIRES, JWT_SECRET, t)

verifyAccessToken(token, t) ==
    IF ~JwtVerifies(token, t) THEN NULL_ID
    ELSE IF token.type # "access" THEN NULL_ID
    ELSE token.userId

\* Variant: the kind of the token is not looked at.
verifyRefreshToken_anyKind(token, t) ==
    IF ~JwtVerifies(token, t) THEN NULL_ID
    ELSE token.userId

verifyRefreshToken(token, t) ==
    IF ~JwtVerifies(token, t) THEN NULL_ID
    ELSE IF token.type # "refresh" THEN NULL_ID
    ELSE token.userId

\* The Authorization header: absent, or a scheme prefix followed by a token.
NO_HEADER == [scheme |-> "absent"]
Bearer(token) == [scheme |-> "Bearer ", token |-> token]
Basic(token)  == [scheme |-> "Basic ", token |-> token]

\* Variant: the scheme prefix is not looked at.
getUserIdFromAuthHeader_anyScheme(authHeader, t) ==
    IF authHeader = NO_HEADER THEN NULL_ID
    ELSE verifyAccessToken(authHeader.token, t)

getUserIdFromAuthHeader(authHeader, t) ==
    IF authHeader = NO_HEADER \/ authHeader.scheme # "Bearer " THEN NULL_ID
    ELSE verifyAccessToken(authHeader.token, t)

\* ------------------------------------------------------------ lib/database.ts
\* The users table: row i is the row with id i (AUTOINCREMENT, no row is deleted).

\* Variant: the is_verified column defaults to TRUE.
NewRow_verified(userData, t) ==
    [ email                |-> userData.email,
      username             |-> userData.username,
      password_hash        |-> userData.passwordHash,
      is_verified          |-> TRUE,
      verification_token   |-> userData.verificationToken,
      verification_expires |-> t + VERIFICATION_EXPIRES,
      refresh_token        |-> NULL_JWT,
      created_at           |-> t ]

\* Variant: the expiry is written as '+2 hour'.
NewRow_twoHours(userData, t) ==
    [ email                |-> userData.email,
      username             |-> userData.username,
      password_hash        |-> userData.passwordHash,
      is_verified          |-> FALSE,
      verification_token   |-> userData.verificationToken,
      verification_expires |-> t + 2 * VERIFICATION_EXPIRES,
      refresh_token        |-> NULL_JWT,
      created_at           |-> t ]

NewRow(userData, t) ==
    [ email                |-> userData.email,
      username             |-> userData.username,
      password_hash        |-> userData.passwordHash,
      is_verified          |-> FALSE,
      verification_token   |-> userData.verificationToken,
      verification_expires |-> t + VERIFICATION_EXPIRES,
      refresh_token        |-> NULL_JWT,
      created_at           |-> t ]

\* INSERT INTO users ...: a UNIQUE column rejects the row with "UNIQUE constraint
\* failed: users.<column>", one column per error.  sqlite tests the unique
\* indexes of a table from the one declared last to the one declared first:
\* verification_token, then username, then email.
\* Variant: only verification_token is declared UNIQUE.
UniqueConstraintFailed_tokenOnly(us, userData) ==
    IF \E i \in DOMAIN us : us[i].verification_token = userData.verificationToken
        THEN "users.verification_token"
    ELSE "none"

UniqueConstraintFailed(us, userData) ==
    IF \E i \in DOMAIN us : us[i].verification_token = userData.verificationToken
        THEN "users.verification_token"
    ELSE IF \E i \in DOMAIN us : us[i].username = userData.username
        THEN "users.username"
    ELSE IF \E i \in DOMAIN us : us[i].email = userData.email
        THEN "users.email"
    ELSE "none"

\* The catch block looks for 'email', then for 'username', in the error text.
createUser(us, userData, t) ==
    LET failed == UniqueConstraintFailed(us, userData) IN
    IF failed = "users.email"
        THEN [ok |-> FALSE, message |-> "EMAIL_IN_USE", users |-> us]
    ELSE IF failed = "users.username"
        THEN [ok |-> FALSE, message |-> "USERNAME_IN_USE", users |-> us]
    ELSE IF failed = "users.verification_token"
        THEN [ok |-> FALSE, message |-> "CREATE_USER_FAILED", users |-> us]
    ELSE [ok |-> TRUE, message |-> "OK", users |-> Append(us, NewRow(userData, t))]

\* SELECT ... FROM users WHERE email = ?
findUserByEmailForAuth(us, email) ==
    IF \E i \in DOMAIN us : us[i].email = email
        THEN CHOOSE i \in DOMAIN us : us[i].email = email
        ELSE NULL_ID

\* SELECT ... FROM users WHERE id = ?
findUserById(us, id) == IF id \in DOMAIN us THEN id ELSE NULL_ID

\* UPDATE users SET is_verified = TRUE, verification_token = NULL,
\*   verification_expires = NULL
\* WHERE verification_token = ? AND verification_expires > datetime('now')
\*   AND is_verified = FALSE
\* Variant: the expiry test is >= instead of >.
verifyUserEmailRows_inclusive(us, token, t) ==
    { i \in DOMAIN us : /\ us[i].verification_token # NULL_TOKEN
                        /\ us[i].verification_token = token
                        /\ us[i].verification_expires # NULL_TIME
                        /\ us[i].verification_expires >= t
                        /\ us[i].is_verified = FALSE }

\* Variant: the WHERE clause has no expiry test.
verifyUserEmailRows_noExpiry(us, token, t) ==
    { i \in DOMAIN us : /\ us[i].verification_token # NULL_TOKEN
                        /\ us[i].verification_token = token
                        /\ us[i].is_verified = FALSE }

verifyUserEmailRows(us, token, t) ==
    { i \in DOMAIN us : /\ us[i].verification_token # NULL_TOKEN
                        /\ us[i].verification_token = token
                        /\ us[i].verification_expires # NULL_TIME
                        /\ us[i].verification_expires > t
                        /\ us[i].is_verified = FALSE }

\* Variant: the SET list leaves verification_expires out.
verifyUserEmail_keepsExpiry(us, token, t) ==
    LET rows == verifyUserEmailRows(us, token, t) IN
    [ changes |-> Cardinality(rows),
      users   |-> [i \in DOMAIN us |->
                     IF i \in rows
                         THEN [us[i] EXCEPT !.is_verified = TRUE,
                                            !.verification_token = NULL_TOKEN]
                         ELSE us[i]] ]

verifyUserEmail(us, token, t) ==
    LET rows == verifyUserEmailRows(us, token, t) IN
    [ changes |-> Cardinality(rows),
      users   |-> [i \in DOMAIN us |->
                     IF i \in rows
                         THEN [us[i] EXCEPT !.is_verified = TRUE,
                                            !.verification_token = NULL_TOKEN,
                                            !.verification_expires = NULL_TIME]
                         ELSE us[i]] ]

\* UPDATE users SET refresh_token = ? WHERE id = ?
\* Variant: the UPDATE has no WHERE clause.
saveRefreshToken_everyRow(us, userId, refreshToken) ==
    [i \in DOMAIN us |-> [us[i] EXCEPT !.refresh_token = refreshToken]]

saveRefreshToken(us, userId, refreshToken) ==
    [i \in DOMAIN us |->
        IF i = userId THEN [us[i] EXCEPT !.refresh_token = refreshToken] ELSE us[i]]

\* Variant: the row is looked up by the subject the token names.
findUserByRefreshToken_bySubject(us, refreshToken) ==
    IF refreshToken.userId \in DOMAIN us THEN refreshToken.userId ELSE NULL_ID

\* SELECT ... FROM users WHERE refresh_token = ?   (get: the first row)
findUserByRefreshToken(us, refreshToken) ==
    LET rows == { i \in DOMAIN us : /\ us[i].refresh_token # NULL_JWT
                                    /\ us[i].refresh_token = refreshToken } IN
    IF rows = {} THEN NULL_ID
    ELSE CHOOSE i \in rows : \A j \in rows : i <= j

\* Variant: the WHERE clause matches no row.
removeRefreshToken_none(us, userId) == us

\* UPDATE users SET refresh_token = NULL WHERE id = ?
removeRefreshToken(us, userId) ==
    [i \in DOMAIN us |->
        IF i = userId THEN [us[i] EXCEPT !.refresh_token = NULL_JWT] ELSE us[i]]

\* UPDATE users SET verification_token = NULL, verification_expires = NULL
\* WHERE verification_expires < datetime('now') AND is_verified = FALSE
\* Variant: the WHERE clause has no expiry test.
cleanupExpiredTokensRows_all(us, t) ==
    { i \in DOMAIN us : us[i].is_verified = FALSE }

\* Variant: the expiry test is <= instead of <.
cleanupExpiredTokensRows_inclusive(us, t) ==
    { i \in DOMAIN us : /\ us[i].verification_expires # NULL_TIME
                        /\ us[i].verification_expires <= t
                        /\ us[i].is_verified = FALSE }

cleanupExpiredTokensRows(us, t) ==
    { i \in DOMAIN us : /\ us[i].verification_expires # NULL_TIME
                        /\ us[i].verification_expires < t
                        /\ us[i].is_verified = FALSE }

\* Variant: the SET list leaves verification_expires out.
cleanupExpiredTokens_keepsExpiry(us, t) ==
    LET rows == cleanupExpiredTokensRows(us, t) IN
    [ changes |-> Cardinality(rows),
      users   |-> [i \in DOMAIN us |->
                     IF i \in rows
                         THEN [us[i] EXCEPT !.verification_token = NULL_TOKEN]
                         ELSE us[i]] ]

cleanupExpiredTokens(us, t) ==
    LET rows == cleanupExpiredTokensRows(us, t) IN
    [ changes |-> Cardinality(rows),
      users   |-> [i \in DOMAIN us |->
                     IF i \in rows
                         THEN [us[i] EXCEPT !.verification_token = NULL_TOKEN,
                                            !.verification_expires = NULL_TIME]
                         ELSE us[i]] ]

\* The posts table: a set of rows; seq is the AUTOINCREMENT counter of the table.
\* INSERT INTO posts (title, content, author_id) VALUES (?, ?, ?), then the row
\* is read back joined with its author; the read fails on a row without one.
\* Foreign keys are not enforced (no PRAGMA foreign_keys).
createPost(us, ps, seq, title, content, authorId) ==
    [ ok    |-> authorId \in DOMAIN us,
      id    |-> seq + 1,
      posts |-> ps \cup {[id |-> seq + 1, title |-> title, content |-> content,
                           author_id |-> authorId]},
      seq   |-> seq + 1 ]

\* DELETE FROM posts WHERE id = ? AND author_id = ?
\* Variant: the WHERE clause has no author test.
deletePost_anyAuthor(ps, postId, authorId) ==
    LET rows == { p \in ps : p.id = postId }
    IN [changes |-> Cardinality(rows), posts |-> ps \ rows]

deletePost(ps, postId, authorId) ==
    LET rows == { p \in ps : p.id = postId /\ authorId # NULL_ID /\ p.author_id = authorId }
    IN [changes |-> Cardinality(rows), posts |-> ps \ rows]

\* ------------------------------------------------------------------- state
VARIABLES
    users,       \* the users table, a sequence of rows indexed by id
    now,         \* the wall clock, in seconds
    clockPlan,   \* the instants this behaviour observes the clock at
    issued,      \* refresh tokens returned to clients, each with the mutation that returned it
    redeemed,    \* refresh tokens that a successful refreshToken was called with
    superseded,  \* login-issued refresh tokens of a user who has logged in again since
    consumed,    \* verification tokens that a successful verifyEmail was called with
    loggedOut,   \* users whose logout succeeded and who have not logged in since
    posts,       \* the posts table
    postSeq,     \* the highest post id handed out so far
    unguarded,   \* ids of the posts inserted for a request that named no caller
    requests,    \* the requests made so far, in flight or answered, in the order of their calls
    database     \* the module variable db, the connections opened, the tables of the file

vars == <<users, now, clockPlan, issued, redeemed, superseded, consumed, loggedOut,
          posts, postSeq, unguarded, requests, database>>
history == <<issued, redeemed, superseded, consumed, loggedOut>>
board == <<posts, postSeq, unguarded>>

\* data/auth_board.db once initializeDatabase has run: db holds the one
\* connection and both tables exist.
Tables == {"users", "posts"}
Initialized == [db |-> 1, opened |-> 1, tables |-> Tables]

UserIds == DOMAIN users

\* What a client may present: every refresh token it was ever given, the access
\* token that came with it, and a copy signed with another key.
IssuedRefresh == { e.token : e \in issued }
AccessOf(token) == generateAccessToken(token.userId, token.iat)
Forged(token) == [token EXCEPT !.key = "other"]
PresentedTokens ==
    IssuedRefresh \cup { AccessOf(tk) : tk \in IssuedRefresh }
                  \cup { Forged(tk) : tk \in IssuedRefresh }
Headers ==
    {NO_HEADER} \cup { Bearer(tk) : tk \in PresentedTokens }
                \cup { Basic(AccessOf(tk)) : tk \in IssuedRefresh }
VerificationTokens == 0..MaxUsers
LoginEmails == {EmailA, EmailD, EmailUnknown}
LoginPasswords == {PwGood, PwOther}

\* The refresh tokens that logins of this user have returned so far.
LoginIssuedTo(userId) ==
    { e.token : e \in { f \in issued : f.by = "login" /\ f.token.userId = userId } }

\* Variant: the generator returns the same value every time.
generateVerificationToken_fixed(us) == 1

\* uuidv4() without its hyphens: 122 random bits, a value no row has ever held.
\* A token drawn for an INSERT that fails is dropped unseen, so the tokens that
\* matter are numbered by the rows that keep them.
generateVerificationToken(us) == Len(us) + 1

\* ------------------------------------------------------- Mutation.register
\* Variant: emailSent repeats the success flag.
RegisterResponse_sentWhenOk(success, message, emailSent) ==
    [success |-> success, message |-> message, emailSent |-> success]

RegisterResponse(success, message, emailSent) ==
    [success |-> success, message |-> message, emailSent |-> emailSent]

\* mailOk is what sendVerificationEmail reports; mail is the calls made to it.
\* Variant: the password is validated after the user was created.
registerResult_validatesLate(us, t, email, username, password, mailOk) ==
    IF ~validateEmail(email)
        THEN [response |-> RegisterResponse(FALSE, "INVALID_EMAIL", FALSE),
              users |-> us, mail |-> << >>]
    ELSE IF ~validateUsername(username).valid
        THEN [response |-> RegisterResponse(FALSE, validateUsername(username).message, FALSE),
              users |-> us, mail |-> << >>]
    ELSE LET verificationToken == generateVerificationToken(us)
             created == createUser(us,
                                   [ email             |-> email,
                                     username          |-> username,
                                     passwordHash      |-> hashPassword(password),
                                     verificationToken |-> verificationToken ],
                                   t)
         IN IF ~created.ok
                THEN [response |-> RegisterResponse(FALSE, created.message, FALSE),
                      users |-> us, mail |-> << >>]
            ELSE IF ~validatePassword(password).valid
                THEN [response |-> RegisterResponse(FALSE, validatePassword(password).message,
                                                    FALSE),
                      users |-> created.users, mail |-> << >>]
            ELSE [response |-> RegisterResponse(TRUE,
                                  IF mailOk THEN "REGISTERED" ELSE "REGISTERED_MAIL_FAILED",
                                  mailOk),
                  users |-> created.users,
                  mail  |-> << [to |-> email, token |-> verificationToken] >>]

registerResult(us, t, email, username, password, mailOk) ==
    IF ~validateEmail(email)
        THEN [response |-> RegisterResponse(FALSE, "INVALID_EMAIL", FALSE),
              users |-> us, mail |-> << >>]
    ELSE IF ~validateUsername(username).valid
        THEN [response |-> RegisterResponse(FALSE, validateUsername(username).message, FALSE),
              users |-> us, mail |-> << >>]
    ELSE IF ~validatePassword(password).valid
        THEN [response |-> RegisterResponse(FALSE, validatePassword(password).message, FALSE),
              users |-> us, mail |-> << >>]
    ELSE LET verificationToken == generateVerificationToken(us)
             created == createUser(us,
                                   [ email             |-> email,
                                     username          |-> username,
                                     passwordHash      |-> hashPassword(password),
                                     verificationToken |-> verificationToken ],
                                   t)
         IN IF ~created.ok
                THEN [response |-> RegisterResponse(FALSE, created.message, FALSE),
                      users |-> us, mail |-> << >>]
                ELSE [response |-> RegisterResponse(TRUE,
                                      IF mailOk THEN "REGISTERED" ELSE "REGISTERED_MAIL_FAILED",
                                      mailOk),
                      users |-> created.users,
                      mail  |-> << [to |-> email, token |-> verificationToken] >>]

\* ---------------------------------------------------- Mutation.verifyEmail
Failed(message) == [ok |-> FALSE, message |-> message]

\* Variant: the resolver does not look at what verifyUserEmail returns.
verifyEmailResult_ignoresChanges(us, t, token) ==
    IF token = EMPTY_TOKEN
        THEN [response |-> Failed("TOKEN_REQUIRED"), users |-> us]
    ELSE LET result == verifyUserEmail(us, token, t) IN
         [response |-> [ok |-> TRUE, message |-> "OK"], users |-> result.users]

verifyEmailResult(us, t, token) ==
    IF token = EMPTY_TOKEN
        THEN [response |-> Failed("TOKEN_REQUIRED"), users |-> us]
    ELSE LET result == verifyUserEmail(us, token, t) IN
         IF result.changes > 0
             THEN [response |-> [ok |-> TRUE, message |-> "OK"], users |-> result.users]
             ELSE [response |-> Failed("INVALID_OR_EXPIRED_TOKEN"), users |-> result.users]

\* -------------------------------------------------- Mutation.cleanupTokens
\* Variant: the resolver reports the number of unverified rows.
cleanupTokensResult_countsUnverified(us, t) ==
    LET result == cleanupExpiredTokens(us, t) IN
    [ response |-> Cardinality({ i \in DOMAIN us : ~us[i].is_verified }),
      users    |-> result.users ]

cleanupTokensResult(us, t) ==
    LET result == cleanupExpiredTokens(us, t) IN
    [response |-> result.changes, users |-> result.users]

\* ---------------------------------------------------------- Mutation.login
AuthPayload(userId, accessToken, refreshToken) ==
    [ ok |-> TRUE, message |-> "OK", userId |-> userId,
      accessToken |-> accessToken, refreshToken |-> refreshToken ]

\* Variant: the verified flag is looked at before the password.
loginResult_verifiedFirst(us, t, email, password) ==
    LET user == findUserByEmailForAuth(us, email) IN
    IF user = NULL_ID
        THEN [response |-> Failed("NO_SUCH_EMAIL"), users |-> us]
    ELSE IF ~us[user].is_verified
        THEN [response |-> Failed("EMAIL_NOT_VERIFIED"), users |-> us]
    ELSE IF ~verifyPassword(password, us[user].password_hash)
        THEN [response |-> Failed("WRONG_PASSWORD"), users |-> us]
    ELSE LET accessToken  == generateAccessToken(user, t)
             refreshToken == generateRefreshToken(user, t)
         IN [ response |-> AuthPayload(user, accessToken, refreshToken),
              users    |-> saveRefreshToken(us, user, refreshToken) ]

\* Variant: the verified flag is not looked at.
loginResult_noVerifiedCheck(us, t, email, password) ==
    LET user == findUserByEmailForAuth(us, email) IN
    IF user = NULL_ID
        THEN [response |-> Failed("NO_SUCH_EMAIL"), users |-> us]
    ELSE IF ~verifyPassword(password, us[user].password_hash)
        THEN [response |-> Failed("WRONG_PASSWORD"), users |-> us]
    ELSE LET accessToken  == generateAccessToken(user, t)
             refreshToken == generateRefreshToken(user, t)
         IN [ response |-> AuthPayload(user, accessToken, refreshToken),
              users    |-> saveRefreshToken(us, user, refreshToken) ]

\* Variant: a wrong password ends the session of the account it was tried on.
loginResult_clearsOnFailure(us, t, email, password) ==
    LET user == findUserByEmailForAuth(us, email) IN
    IF user = NULL_ID
        THEN [response |-> Failed("NO_SUCH_EMAIL"), users |-> us]
    ELSE IF ~verifyPassword(password, us[user].password_hash)
        THEN [response |-> Failed("WRONG_PASSWORD"), users |-> removeRefreshToken(us, user)]
    ELSE IF ~us[user].is_verified
        THEN [response |-> Failed("EMAIL_NOT_VERIFIED"), users |-> us]
    ELSE LET accessToken  == generateAccessToken(user, t)
             refreshToken == generateRefreshToken(user, t)
         IN [ response |-> AuthPayload(user, accessToken, refreshToken),
              users    |-> saveRefreshToken(us, user, refreshToken) ]

\* Variant: the access token is the one handed to saveRefreshToken.
loginResult_storesAccessToken(us, t, email, password) ==
    LET user == findUserByEmailForAuth(us, email) IN
    IF user = NULL_ID
        THEN [response |-> Failed("NO_SUCH_EMAIL"), users |-> us]
    ELSE IF ~verifyPassword(password, us[user].password_hash)
        THEN [response |-> Failed("WRONG_PASSWORD"), users |-> us]
    ELSE IF ~us[user].is_verified
        THEN [response |-> Failed("EMAIL_NOT_VERIFIED"), users |-> us]
    ELSE LET accessToken  == generateAccessToken(user, t)
             refreshToken == generateRefreshToken(user, t)
         IN [ response |-> AuthPayload(user, accessToken, refreshToken),
              users    |-> saveRefreshToken(us, user, accessToken) ]

loginResult(us, t, email, password) ==
    LET user == findUserByEmailForAuth(us, email) IN
    IF user = NULL_ID
        THEN [response |-> Failed("NO_SUCH_EMAIL"), users |-> us]
    ELSE IF ~verifyPassword(password, us[user].password_hash)
        THEN [response |-> Failed("WRONG_PASSWORD"), users |-> us]
    ELSE IF ~us[user].is_verified
        THEN [response |-> Failed("EMAIL_NOT_VERIFIED"), users |-> us]
    ELSE LET accessToken  == generateAccessToken(user, t)
             refreshToken == generateRefreshToken(user, t)
         IN [ response |-> AuthPayload(user, accessToken, refreshToken),
              users    |-> saveRefreshToken(us, user, refreshToken) ]

\* --------------------------------------------------- Mutation.refreshToken
refreshTokenResult(us, t, presented) ==
    LET decoded == verifyRefreshToken(presented, t)
        user    == findUserByRefreshToken(us, presented) IN
    IF decoded = NULL_ID
        THEN [response |-> Failed("INVALID_REFRESH_TOKEN"), users |-> us]
    ELSE IF user = NULL_ID
        THEN [response |-> Failed("REFRESH_TOKEN_NOT_STORED"), users |-> us]
    ELSE LET newAccessToken  == generateAccessToken(user, t)
             newRefreshToken == generateRefreshToken(user, t)
         IN [ response |-> AuthPayload(user, newAccessToken, newRefreshToken),
              users    |-> saveRefreshToken(us, user, newRefreshToken) ]

\* --------------------------------------------------------- Mutation.logout
\* Variant: a caller with nothing stored is told the logout failed.
logoutResult_failsWhenLoggedOut(us, t, authHeader) ==
    LET userId == getUserIdFromAuthHeader(authHeader, t) IN
    IF userId = NULL_ID \/ us[userId].refresh_token = NULL_JWT
        THEN [response |-> FALSE, userId |-> NULL_ID, users |-> us]
        ELSE [response |-> TRUE, userId |-> userId, users |-> removeRefreshToken(us, userId)]

logoutResult(us, t, authHeader) ==
    LET userId == getUserIdFromAuthHeader(authHeader, t) IN
    IF userId = NULL_ID
        THEN [response |-> FALSE, userId |-> NULL_ID, users |-> us]
        ELSE [response |-> TRUE, userId |-> userId, users |-> removeRefreshToken(us, userId)]

\* ----------------------------------------------------- Mutation.createPost
\* Variant: title and content are checked before the verified flag.
createPostResult_checksTextFirst(us, ps, seq, t, authHeader, title, content) ==
    LET userId == getUserIdFromAuthHeader(authHeader, t)
        user   == findUserById(us, userId)
        fails(message) == [response |-> Failed(message), userId |-> userId,
                           posts |-> ps, seq |-> seq]
    IN IF userId = NULL_ID THEN fails("LOGIN_REQUIRED")
       ELSE IF user = NULL_ID THEN fails("INVALID_USER")
       ELSE IF length(title) = 0 \/ length(trim(title)) = 0 THEN fails("TITLE_REQUIRED")
       ELSE IF length(content) = 0 \/ length(trim(content)) = 0 THEN fails("CONTENT_REQUIRED")
       ELSE IF length(title) > MAX_TITLE_LENGTH THEN fails("TITLE_TOO_LONG")
       ELSE IF length(content) > MAX_CONTENT_LENGTH THEN fails("CONTENT_TOO_LONG")
       ELSE IF ~us[user].is_verified THEN fails("EMAIL_NOT_VERIFIED")
       ELSE LET created == createPost(us, ps, seq, trim(title), trim(content), userId)
            IN [ response |-> [ok |-> created.ok, message |-> "OK", id |-> created.id],
                 userId   |-> userId,
                 posts    |-> created.posts,
                 seq      |-> created.seq ]

\* Variant: the two length limits are applied to the trimmed strings.
createPostResult_trimmedLength(us, ps, seq, t, authHeader, title, content) ==
    LET userId == getUserIdFromAuthHeader(authHeader, t)
        user   == findUserById(us, userId)
        fails(message) == [response |-> Failed(message), userId |-> userId,
                           posts |-> ps, seq |-> seq]
    IN IF userId = NULL_ID THEN fails("LOGIN_REQUIRED")
       ELSE IF user = NULL_ID THEN fails("INVALID_USER")
       ELSE IF ~us[user].is_verified THEN fails("EMAIL_NOT_VERIFIED")
       ELSE IF length(title) = 0 \/ length(trim(title)) = 0 THEN fails("TITLE_REQUIRED")
       ELSE IF length(content) = 0 \/ length(trim(content)) = 0 THEN fails("CONTENT_REQUIRED")
       ELSE IF length(trim(title)) > MAX_TITLE_LENGTH THEN fails("TITLE_TOO_LONG")
       ELSE IF length(trim(content)) > MAX_CONTENT_LENGTH THEN fails("CONTENT_TOO_LONG")
       ELSE LET created == createPost(us, ps, seq, trim(title), trim(content), userId)
            IN [ response |-> [ok |-> created.ok, message |-> "OK", id |-> created.id],
                 userId   |-> userId,
                 posts    |-> created.posts,
                 seq      |-> created.seq ]

\* Variant: a caller with no stored refresh token is turned away.
createPostResult_requiresSession(us, ps, seq, t, authHeader, title, content) ==
    LET userId == getUserIdFromAuthHeader(authHeader, t)
        user   == findUserById(us, userId)
        fails(message) == [response |-> Failed(message), userId |-> userId,
                           posts |-> ps, seq |-> seq]
    IN IF userId = NULL_ID THEN fails("LOGIN_REQUIRED")
       ELSE IF user = NULL_ID THEN fails("INVALID_USER")
       ELSE IF us[user].refresh_token = NULL_JWT THEN fails("LOGIN_REQUIRED")
       ELSE IF ~us[user].is_verified THEN fails("EMAIL_NOT_VERIFIED")
       ELSE IF length(title) = 0 \/ length(trim(title)) = 0 THEN fails("TITLE_REQUIRED")
       ELSE IF length(content) = 0 \/ length(trim(content)) = 0 THEN fails("CONTENT_REQUIRED")
       ELSE IF length(title) > MAX_TITLE_LENGTH THEN fails("TITLE_TOO_LONG")
       ELSE IF length(content) > MAX_CONTENT_LENGTH THEN fails("CONTENT_TOO_LONG")
       ELSE LET created == createPost(us, ps, seq, trim(title), trim(content), userId)
            IN [ response |-> [ok |-> created.ok, message |-> "OK", id |-> created.id],
                 userId   |-> userId,
                 posts    |-> created.posts,
                 seq      |-> created.seq ]

createPostResult(us, ps, seq, t, authHeader, title, content) ==
    LET userId == getUserIdFromAuthHeader(authHeader, t)
        user   == findUserById(us, userId)
        fails(message) == [response |-> Failed(message), userId |-> userId,
                           posts |-> ps, seq |-> seq]
    IN IF userId = NULL_ID THEN fails("LOGIN_REQUIRED")
       ELSE IF user = NULL_ID THEN fails("INVALID_USER")
       ELSE IF ~us[user].is_verified THEN fails("EMAIL_NOT_VERIFIED")
       ELSE IF length(title) = 0 \/ length(trim(title)) = 0 THEN fails("TITLE_REQUIRED")
       ELSE IF length(content) = 0 \/ length(trim(content)) = 0 THEN fails("CONTENT_REQUIRED")
       ELSE IF length(title) > MAX_TITLE_LENGTH THEN fails("TITLE_TOO_LONG")
       ELSE IF length(content) > MAX_CONTENT_LENGTH THEN fails("CONTENT_TOO_LONG")
       ELSE LET created == createPost(us, ps, seq, trim(title), trim(content), userId)
            IN [ response |-> [ok |-> created.ok, message |-> "OK", id |-> created.id],
                 userId   |-> userId,
                 posts    |-> created.posts,
                 seq      |-> created.seq ]

\* ----------------------------------------------------- Mutation.deletePost
DecimalDigits == <<"0", "1", "2", "3", "4", "5", "6", "7", "8", "9">>
IsDigit(c) == \E n \in DOMAIN DecimalDigits : DecimalDigits[n] = c
DigitValue(c) == (CHOOSE n \in DOMAIN DecimalDigits : DecimalDigits[n] = c) - 1

RECURSIVE DecimalValue(_, _)
DecimalValue(str, k) ==
    IF k = 0 THEN 0 ELSE 10 * DecimalValue(str, k - 1) + DigitValue(str[k])

\* parseInt(string): the number its leading digits spell, NaN when it has none.
parseInt(str) ==
    LET prefix == { k \in 0..Len(str) : \A i \in 1..k : IsDigit(str[i]) }
        k      == CHOOSE n \in prefix : \A m \in prefix : m <= n
    IN IF k = 0 THEN NOT_A_NUMBER ELSE DecimalValue(str, k)

\* Variant: the resolver does not look at what deletePost returns.
deletePostResult_ignoresChanges(us, ps, t, authHeader, id) ==
    LET userId == getUserIdFromAuthHeader(authHeader, t)
        postId == parseInt(id)
        fails(message) == [response |-> Failed(message), userId |-> userId, posts |-> ps]
    IN IF userId = NULL_ID THEN fails("LOGIN_REQUIRED")
       ELSE IF postId = NOT_A_NUMBER THEN fails("INVALID_POST_ID")
       ELSE [ response |-> [ok |-> TRUE, message |-> "OK"],
              userId   |-> userId,
              posts    |-> deletePost(ps, postId, userId).posts ]

deletePostResult(us, ps, t, authHeader, id) ==
    LET userId == getUserIdFromAuthHeader(authHeader, t)
        postId == parseInt(id)
        fails(message) == [response |-> Failed(message), userId |-> userId, posts |-> ps]
    IN IF userId = NULL_ID THEN fails("LOGIN_REQUIRED")
       ELSE IF postId = NOT_A_NUMBER THEN fails("INVALID_POST_ID")
       ELSE LET result == deletePost(ps, postId, userId) IN
            IF result.changes = 0 THEN fails("NOT_FOUND_OR_FORBIDDEN")
            ELSE [ response |-> [ok |-> TRUE, message |-> "OK"],
                   userId   |-> userId,
                   posts    |-> result.posts ]

\* ------------------------------------- the older API: addPost and deletePost
\* addPost hands title, content and author to createPost as they are; the
\* author column has INTEGER affinity and keeps the number the string spells.
\* The response is an error either way: the read-back fails, or the Post it
\* returns has no author field.
addPostResult(us, ps, seq, title, content, author) ==
    LET created == createPost(us, ps, seq, title, content, author) IN
    [ response |-> Failed("INTERNAL_ERROR"),
      userId   |-> NULL_ID,
      id       |-> created.id,
      posts    |-> created.posts,
      seq      |-> created.seq ]

\* deletePost(id) leaves the author parameter of the DELETE unbound, so NULL.
legacyDeletePostResult(ps, id) ==
    LET result == deletePost(ps, parseInt(id), NULL_ID) IN
    [response |-> result.changes > 0, userId |-> NULL_ID, posts |-> result.posts]

\* ----------------------------------------------------------------- actions
Init ==
    /\ users = << >>
    /\ now = 0
    /\ clockPlan \in ClockPlans
    /\ issued = {}
    /\ redeemed = {}
    /\ superseded = {}
    /\ consumed = {}
    /\ loggedOut = {}
    /\ posts = {}
    /\ postSeq = 0
    /\ unguarded = {}
    /\ requests = << >>
    /\ database = Initialized

Tick(t) ==
    /\ t > now
    /\ now' = t
    /\ UNCHANGED <<users, clockPlan, history, board, requests, database>>

register(email, username, password, mailOk) ==
    /\ Len(users) < MaxUsers
    /\ users' = registerResult(users, now, email, username, password, mailOk).users
    /\ UNCHANGED <<now, clockPlan, history, board, requests, database>>

verifyEmail(token) ==
    LET result == verifyEmailResult(users, now, token) IN
    /\ users' = result.users
    /\ consumed' = IF result.response.ok THEN consumed \cup {token} ELSE consumed
    /\ UNCHANGED <<now, clockPlan, issued, redeemed, superseded, loggedOut, board, requests, database>>

cleanupTokens ==
    /\ users' = cleanupTokensResult(users, now).users
    /\ UNCHANGED <<now, clockPlan, history, board, requests, database>>

login(email, password) ==
    LET result == loginResult(users, now, email, password) IN
    /\ users' = result.users
    /\ UNCHANGED <<now, clockPlan, redeemed, consumed, board, requests, database>>
    /\ IF result.response.ok
         THEN /\ Cardinality(IssuedRefresh \cup {result.response.refreshToken}) <= MaxIssued
              /\ issued' = issued \cup {[token |-> result.response.refreshToken, by |-> "login"]}
              /\ superseded' = superseded \cup LoginIssuedTo(result.response.userId)
              /\ loggedOut' = loggedOut \ {result.response.userId}
         ELSE UNCHANGED <<issued, superseded, loggedOut>>

refreshToken(presented) ==
    LET result == refreshTokenResult(users, now, presented) IN
    /\ users' = result.users
    /\ UNCHANGED <<now, clockPlan, superseded, consumed, loggedOut, board, requests, database>>
    /\ IF result.response.ok
         THEN /\ Cardinality(IssuedRefresh \cup {result.response.refreshToken}) <= MaxIssued
              /\ issued' = issued \cup {[token |-> result.response.refreshToken,
                                         by |-> "refreshToken"]}
              /\ redeemed' = redeemed \cup {presented}
         ELSE UNCHANGED <<issued, redeemed>>

logout(authHeader) ==
    LET result == logoutResult(users, now, authHeader) IN
    /\ users' = result.users
    /\ loggedOut' = IF result.response THEN loggedOut \cup {result.userId} ELSE loggedOut
    /\ UNCHANGED <<now, clockPlan, issued, redeemed, superseded, consumed, board, requests, database>>

Next ==
    \/ \E t \in clockPlan : Tick(t)
    \/ \E reg \in Registrations, mailOk \in BOOLEAN :
          register(reg.email, reg.username, reg.password, mailOk)
    \/ \E token \in VerificationTokens : verifyEmail(token)
    \/ cleanupTokens
    \/ \E email \in LoginEmails, password \in LoginPasswords : login(email, password)
    \/ \E presented \in PresentedTokens : refreshToken(presented)
    \/ \E authHeader \in Headers : logout(authHeader)

Spec == Init /\ [][Next]_vars

\* Registration on its own, with every string of the validators' inputs: the
\* sign-up form, the link in the mail and the sweep, and no session.
NextRegister ==
    \/ \E t \in clockPlan : Tick(t)
    \/ \E email \in RegisterEmails, username \in RegisterUsernames,
          password \in RegisterPasswords, mailOk \in BOOLEAN :
          register(email, username, password, mailOk)
    \/ \E token \in VerificationTokens : verifyEmail(token)
    \/ cleanupTokens

SpecRegister == Init /\ [][NextRegister]_vars

\* ---------------------------------------------------------------- sessions
\* Sessions on their own: two people have registered in the first second, and
\* from there on they follow the link in the mail, log in, refresh and log out,
\* while the sweep of expired verification tokens runs.
SessionUsers ==
    LET a == registerResult(<< >>, 0, EmailA, NameAlice, PwGood, TRUE).users
    IN registerResult(a, 0, EmailD, NameBob, PwGood, TRUE).users

InitSession ==
    /\ users = SessionUsers
    /\ now = 0
    /\ clockPlan \in ClockPlans
    /\ issued = {}
    /\ redeemed = {}
    /\ superseded = {}
    /\ consumed = {}
    /\ loggedOut = {}
    /\ posts = {}
    /\ postSeq = 0
    /\ unguarded = {}
    /\ requests = << >>
    /\ database = Initialized

NextSession ==
    \/ \E t \in clockPlan : Tick(t)
    \/ \E token \in VerificationTokens : verifyEmail(token)
    \/ cleanupTokens
    \/ \E email \in LoginEmails, password \in LoginPasswords : login(email, password)
    \/ \E presented \in PresentedTokens : refreshToken(presented)
    \/ \E authHeader \in Headers : logout(authHeader)

SpecSession == InitSession /\ [][NextSession]_vars

\* --------------------------------------------------------------- the board
\* The board starts where two people have registered, verified and logged in
\* in the first second, and a third has registered; the access tokens run out
\* 15 minutes later.
BoardUsers ==
    LET a  == registerResult(<< >>, 0, EmailA, NameAlice, PwGood, TRUE).users
        b  == registerResult(a, 0, EmailD, NameBob, PwGood, TRUE).users
        va == verifyEmailResult(b, 0, a[1].verification_token).users
        vb == verifyEmailResult(va, 0, b[2].verification_token).users
        c  == registerResult(vb, 0, EmailCarol, NameCarol, PwGood, TRUE).users
        la == loginResult(c, 0, EmailA, PwGood).users
    IN loginResult(la, 0, EmailD, PwGood).users

InitPosts ==
    /\ users = BoardUsers
    /\ now = 0
    /\ clockPlan = {0, ACCESS_TOKEN_EXPIRES - 1, ACCESS_TOKEN_EXPIRES}
    /\ issued = { [token |-> users[u].refresh_token, by |-> "login"] :
                      u \in { v \in DOMAIN users : users[v].refresh_token # NULL_JWT } }
    /\ redeemed = {}
    /\ superseded = {}
    /\ consumed = { 1, 2 }
    /\ loggedOut = {}
    /\ posts = {}
    /\ postSeq = 0
    /\ unguarded = {}
    /\ requests = << >>
    /\ database = Initialized

createPostMutation(authHeader, title, content) ==
    LET result == createPostResult(users, posts, postSeq, now, authHeader, title, content) IN
    /\ result.seq <= MaxPosts
    /\ posts' = result.posts
    /\ postSeq' = result.seq
    /\ unguarded' = IF result.posts # posts /\ result.userId = NULL_ID
                        THEN unguarded \cup {result.response.id} ELSE unguarded
    /\ UNCHANGED <<users, now, clockPlan, history, requests, database>>

deletePostMutation(authHeader, id) ==
    LET result == deletePostResult(users, posts, now, authHeader, id) IN
    /\ posts' = result.posts
    /\ unguarded' = IF result.posts # posts /\ result.userId = NULL_ID
                        THEN unguarded \cup {parseInt(id)} ELSE unguarded
    /\ UNCHANGED <<users, now, clockPlan, history, postSeq, requests, database>>

addPost(title, content, author) ==
    LET result == addPostResult(users, posts, postSeq, title, content, author) IN
    /\ result.seq <= MaxPosts
    /\ posts' = result.posts
    /\ postSeq' = result.seq
    /\ unguarded' = IF result.posts # posts /\ result.userId = NULL_ID
                        THEN unguarded \cup {result.id} ELSE unguarded
    /\ UNCHANGED <<users, now, clockPlan, history, requests, database>>

legacyDeletePost(id) ==
    LET result == legacyDeletePostResult(posts, id) IN
    /\ posts' = result.posts
    /\ unguarded' = IF result.posts # posts /\ result.userId = NULL_ID
                        THEN unguarded \cup {parseInt(id)} ELSE unguarded
    /\ UNCHANGED <<users, now, clockPlan, history, postSeq, requests, database>>

NextPosts ==
    \/ \E t \in clockPlan : Tick(t)
    \/ \E authHeader \in Headers, title \in Titles, content \in Contents :
          createPostMutation(authHeader, title, content)
    \/ \E authHeader \in Headers, id \in PostIdArgs : deletePostMutation(authHeader, id)
    \/ \E title \in LegacyTitles, content \in LegacyContents, author \in LegacyAuthors :
          addPost(title, content, author)
    \/ \E id \in PostIdArgs : legacyDeletePost(id)

SpecPosts == InitPosts /\ [][NextPosts]_vars

\* ---------------------------------------------------- overlapping requests
\* Each resolver is an async function: what it does before its first await
\* (validating its arguments, resolving the caller) happens when it is called,
\* and its one SQL statement runs at some later turn of the event loop, other
\* requests' statements in between.  sqlite runs each statement as a whole.
\* What follows the statement (reading the new row back, sending the mail)
\* reads only what the request itself wrote and decides nothing.
\* A request records the ones in flight when it was called (open).
InFlight == { i \in DOMAIN requests : requests[i].pc # "done" }

\* --- register
SignupEmails == { EmailA, EmailD, EmailBad }
SignupUsernames == { NameAlice, NameBob }

registerCall(email, username, password) ==
    /\ Len(requests) < MaxRequests
    /\ LET valid  == /\ validateEmail(email)
                        /\ validateUsername(username).valid
                        /\ validatePassword(password).valid
       IN requests' = Append(requests,
              [ op       |-> "register",
                email    |-> email,
                username |-> username,
                password |-> password,
                pc       |-> IF valid THEN "started" ELSE "done",
                ok       |-> FALSE,
                open     |-> InFlight ])
    /\ UNCHANGED <<users, now, clockPlan, history, board, database>>

\* createUser: the INSERT, and the response that follows from it.
registerInsert(i, mailOk) ==
    /\ requests[i].pc = "started"
    /\ LET result == registerResult(users, now, requests[i].email, requests[i].username,
                                    requests[i].password, mailOk)
       IN /\ Len(result.users) <= MaxUsers
          /\ users' = result.users
          /\ requests' = [requests EXCEPT ![i].pc = "done",
                                          ![i].ok = result.response.success]
    /\ UNCHANGED <<now, clockPlan, history, board, database>>

NextSignup ==
    \/ \E email \in SignupEmails, username \in SignupUsernames :
          registerCall(email, username, PwGood)
    \/ \E i \in DOMAIN requests, mailOk \in BOOLEAN : registerInsert(i, mailOk)

SpecSignup == Init /\ [][NextSignup]_vars

\* --- verifyEmail and cleanupTokens
\* Two people have registered in the first second; the clock is read in that
\* second, at the end of the hour, and one second later.
InitVerify ==
    /\ users = SessionUsers
    /\ now = 0
    /\ clockPlan = {0, VERIFICATION_EXPIRES, VERIFICATION_EXPIRES + 1}
    /\ issued = {}
    /\ redeemed = {}
    /\ superseded = {}
    /\ consumed = {}
    /\ loggedOut = {}
    /\ posts = {}
    /\ postSeq = 0
    /\ unguarded = {}
    /\ requests = << >>
    /\ database = Initialized

verifyEmailCall(token) ==
    /\ Len(requests) < MaxRequests
    /\ requests' = Append(requests,
           [ op    |-> "verifyEmail",
             token |-> token,
             pc    |-> IF token = EMPTY_TOKEN THEN "done" ELSE "started",
             ok    |-> FALSE,
             count |-> 0,
             at    |-> NULL_TIME,
             open  |-> InFlight ])
    /\ UNCHANGED <<users, now, clockPlan, history, board, database>>

\* verifyUserEmail: the UPDATE, and the response that follows from it.
verifyEmailUpdate(i) ==
    /\ requests[i].op = "verifyEmail"
    /\ requests[i].pc = "started"
    /\ LET result == verifyEmailResult(users, now, requests[i].token)
       IN /\ users' = result.users
          /\ consumed' = IF result.response.ok
                             THEN consumed \cup {requests[i].token} ELSE consumed
          /\ requests' = [requests EXCEPT ![i].pc = "done",
                                          ![i].ok = result.response.ok,
                                          ![i].at = now]
    /\ UNCHANGED <<now, clockPlan, issued, redeemed, superseded, loggedOut, board, database>>

cleanupTokensCall ==
    /\ Len(requests) < MaxRequests
    /\ requests' = Append(requests,
           [ op    |-> "cleanupTokens",
             token |-> NULL_TOKEN,
             pc    |-> "started",
             ok    |-> FALSE,
             count |-> 0,
             at    |-> NULL_TIME,
             open  |-> InFlight ])
    /\ UNCHANGED <<users, now, clockPlan, history, board, database>>

\* cleanupExpiredTokens: the UPDATE, and the number the resolver returns.
cleanupTokensUpdate(i) ==
    /\ requests[i].op = "cleanupTokens"
    /\ requests[i].pc = "started"
    /\ LET result == cleanupTokensResult(users, now)
       IN /\ users' = result.users
          /\ requests' = [requests EXCEPT ![i].pc = "done",
                                          ![i].ok = TRUE,
                                          ![i].count = result.response,
                                          ![i].at = now]
    /\ UNCHANGED <<now, clockPlan, history, board, database>>

NextVerify ==
    \/ \E t \in clockPlan : Tick(t)
    \/ \E token \in VerificationTokens : verifyEmailCall(token)
    \/ \E i \in DOMAIN requests : verifyEmailUpdate(i)
    \/ cleanupTokensCall
    \/ \E i \in DOMAIN requests : cleanupTokensUpdate(i)

SpecVerify == InitVerify /\ [][NextVerify]_vars

\* --- deletePost
\* The board with one post of each of its two members, both still logged in.
BoardPosts ==
    LET a == createPostResult(BoardUsers, {}, 0, 0, Bearer(generateAccessToken(1, 0)),
                              Text(5, 0), Text(5, 0))
    IN createPostResult(BoardUsers, a.posts, a.seq, 0, Bearer(generateAccessToken(2, 0)),
                        Text(5, 0), Text(5, 0))

InitDelete ==
    /\ users = BoardUsers
    /\ now = 0
    /\ clockPlan = {0}
    /\ issued = { [token |-> users[u].refresh_token, by |-> "login"] :
                      u \in { v \in DOMAIN users : users[v].refresh_token # NULL_JWT } }
    /\ redeemed = {}
    /\ superseded = {}
    /\ consumed = { 1, 2 }
    /\ loggedOut = {}
    /\ posts = BoardPosts.posts
    /\ postSeq = BoardPosts.seq
    /\ unguarded = {}
    /\ requests = << >>
    /\ database = Initialized

DeleteHeaders == {NO_HEADER} \cup { Bearer(AccessOf(tk)) : tk \in IssuedRefresh }
DeleteIdArgs == { <<"1">>, <<"2">>, <<"x">> }

\* The caller and the post id are resolved before the first await.
deletePostCall(authHeader, id) ==
    /\ Len(requests) < MaxRequests
    /\ LET userId == getUserIdFromAuthHeader(authHeader, now)
           postId == parseInt(id)
       IN requests' = Append(requests,
              [ op         |-> "deletePost",
                authHeader |-> authHeader,
                id         |-> id,
                pc         |-> IF userId = NULL_ID \/ postId = NOT_A_NUMBER
                                   THEN "done" ELSE "started",
                ok         |-> FALSE,
                at         |-> now,
                open       |-> InFlight ])
    /\ UNCHANGED <<users, now, clockPlan, history, board, database>>

\* deletePost of database.ts: the DELETE, and the response that follows from it.
deletePostDelete(i) ==
    /\ requests[i].pc = "started"
    /\ LET result == deletePostResult(users, posts, requests[i].at,
                                      requests[i].authHeader, requests[i].id)
       IN /\ posts' = result.posts
          /\ requests' = [requests EXCEPT ![i].pc = "done",
                                          ![i].ok = result.response.ok]
    /\ UNCHANGED <<users, now, clockPlan, history, postSeq, unguarded, database>>

NextDelete ==
    \/ \E authHeader \in DeleteHeaders, id \in DeleteIdArgs : deletePostCall(authHeader, id)
    \/ \E i \in DOMAIN requests : deletePostDelete(i)

SpecDelete == InitDelete /\ [][NextDelete]_vars

\* --- refreshToken and logout
\* The two members of the board are logged in; each holds the refresh token
\* and the access token of that login.  refreshToken has two statements with
\* an await before each: the SELECT of findUserByRefreshToken and the UPDATE
\* of saveRefreshToken, the new tokens being signed in between.
InitRefresh ==
    /\ users = BoardUsers
    /\ now = 0
    /\ clockPlan = {0, 1}
    /\ issued = { [token |-> users[u].refresh_token, by |-> "login"] :
                      u \in { v \in DOMAIN users : users[v].refresh_token # NULL_JWT } }
    /\ redeemed = {}
    /\ superseded = {}
    /\ consumed = { 1, 2 }
    /\ loggedOut = {}
    /\ posts = {}
    /\ postSeq = 0
    /\ unguarded = {}
    /\ requests = << >>
    /\ database = Initialized

LogoutHeaders == {NO_HEADER} \cup { Bearer(AccessOf(tk)) : tk \in IssuedRefresh }

\* verifyRefreshToken(refreshToken), before the first await.
refreshTokenCall(presented) ==
    /\ Len(requests) < MaxRequests
    /\ requests' = Append(requests,
           [ op           |-> "refreshToken",
             presented    |-> presented,
             authHeader   |-> NO_HEADER,
             pc           |-> IF verifyRefreshToken(presented, now) = NULL_ID
                                  THEN "done" ELSE "started",
             ok           |-> FALSE,
             user         |-> NULL_ID,
             refreshToken |-> NULL_JWT,
             open         |-> InFlight ])
    /\ UNCHANGED <<users, now, clockPlan, history, board, database>>

\* findUserByRefreshToken: the SELECT; then the new tokens are signed.
refreshTokenSelect(i) ==
    /\ requests[i].op = "refreshToken"
    /\ requests[i].pc = "started"
    /\ LET user == findUserByRefreshToken(users, requests[i].presented) IN
       requests' = IF user = NULL_ID
                       THEN [requests EXCEPT ![i].pc = "done"]
                       ELSE [requests EXCEPT ![i].pc = "found",
                                             ![i].user = user,
                                             ![i].refreshToken =
                                                 generateRefreshToken(user, now)]
    /\ UNCHANGED <<users, now, clockPlan, history, board, database>>

\* saveRefreshToken: the UPDATE, and the token pair is returned.
refreshTokenUpdate(i) ==
    /\ requests[i].op = "refreshToken"
    /\ requests[i].pc = "found"
    /\ users' = saveRefreshToken(users, requests[i].user, requests[i].refreshToken)
    /\ issued' = issued \cup {[token |-> requests[i].refreshToken, by |-> "refreshToken"]}
    /\ redeemed' = redeemed \cup {requests[i].presented}
    /\ requests' = [requests EXCEPT ![i].pc = "done", ![i].ok = TRUE]
    /\ UNCHANGED <<now, clockPlan, superseded, consumed, loggedOut, board, database>>

\* getUserIdFromAuthHeader(authorization), before the first await.
logoutCall(authHeader) ==
    /\ Len(requests) < MaxRequests
    /\ LET userId == getUserIdFromAuthHeader(authHeader, now) IN
       requests' = Append(requests,
           [ op           |-> "logout",
             presented    |-> NULL_JWT,
             authHeader   |-> authHeader,
             pc           |-> IF userId = NULL_ID THEN "done" ELSE "started",
             ok           |-> FALSE,
             user         |-> userId,
             refreshToken |-> NULL_JWT,
             open         |-> InFlight ])
    /\ UNCHANGED <<users, now, clockPlan, history, board, database>>

\* removeRefreshToken: the UPDATE, and true is returned.
logoutUpdate(i) ==
    /\ requests[i].op = "logout"
    /\ requests[i].pc = "started"
    /\ users' = removeRefreshToken(users, requests[i].user)
    /\ loggedOut' = loggedOut \cup {requests[i].user}
    /\ requests' = [requests EXCEPT ![i].pc = "done", ![i].ok = TRUE]
    /\ UNCHANGED <<now, clockPlan, issued, redeemed, superseded, consumed, board, database>>

NextRefresh ==
    \/ \E t \in clockPlan : Tick(t)
    \/ \E presented \in IssuedRefresh : refreshTokenCall(presented)
    \/ \E i \in DOMAIN requests : refreshTokenSelect(i)
    \/ \E i \in DOMAIN requests : refreshTokenUpdate(i)
    \/ \E authHeader \in LogoutHeaders : logoutCall(authHeader)
    \/ \E i \in DOMAIN requests : logoutUpdate(i)

SpecRefresh == InitRefresh /\ [][NextRefresh]_vars

\* --- initializeDatabase
\* The process has just started on a new data directory: db is null and the
\* file has no table.  The handler calls initializeDatabase for every request.
\* A call that finds db set returns it at once; a call that finds it null
\* opens a connection, assigns it to db when open() resolves, and then runs
\* the two CREATE TABLE statements and the CREATE INDEX statements on db, one
\* await after the other.  ready records whether both tables existed when
\* the call returned db to its request.
InitStartup ==
    /\ users = << >>
    /\ now = 0
    /\ clockPlan = {0}
    /\ issued = {}
    /\ redeemed = {}
    /\ superseded = {}
    /\ consumed = {}
    /\ loggedOut = {}
    /\ posts = {}
    /\ postSeq = 0
    /\ unguarded = {}
    /\ requests = << >>
    /\ database = [db |-> NULL_ID, opened |-> 0, tables |-> {}]

\* if (db) return db; otherwise open({ filename, driver }) is started.
initializeDatabaseCall ==
    /\ Len(requests) < MaxRequests
    /\ IF database.db # NULL_ID
         THEN /\ requests' = Append(requests,
                      [ op         |-> "initializeDatabase",
                        pc         |-> "done",
                        connection |-> database.db,
                        ready      |-> database.tables = Tables,
                        open       |-> InFlight ])
              /\ UNCHANGED database
         ELSE /\ requests' = Append(requests,
                      [ op         |-> "initializeDatabase",
                        pc         |-> "started",
                        connection |-> database.opened + 1,
                        ready      |-> FALSE,
                        open       |-> InFlight ])
              /\ database' = [database EXCEPT !.opened = database.opened + 1]
    /\ UNCHANGED <<users, now, clockPlan, history, board>>

\* db = await open(...): the connection this call opened is assigned to db.
openResolved(i) ==
    /\ requests[i].pc = "started"
    /\ database' = [database EXCEPT !.db = requests[i].connection]
    /\ requests' = [requests EXCEPT ![i].pc = "users"]
    /\ UNCHANGED <<users, now, clockPlan, history, board>>

\* await db.exec(CREATE TABLE IF NOT EXISTS users ...)
createUsersTable(i) ==
    /\ requests[i].pc = "users"
    /\ database' = [database EXCEPT !.tables = database.tables \cup {"users"}]
    /\ requests' = [requests EXCEPT ![i].pc = "posts"]
    /\ UNCHANGED <<users, now, clockPlan, history, board>>

\* await db.exec(CREATE TABLE IF NOT EXISTS posts ...)
createPostsTable(i) ==
    /\ requests[i].pc = "posts"
    /\ database' = [database EXCEPT !.tables = database.tables \cup {"posts"}]
    /\ requests' = [requests EXCEPT ![i].pc = "indexes"]
    /\ UNCHANGED <<users, now, clockPlan, history, board>>

\* await db.exec(CREATE INDEX IF NOT EXISTS ...); return db
createIndexes(i) ==
    /\ requests[i].pc = "indexes"
    /\ requests' = [requests EXCEPT ![i].pc = "done",
                                    ![i].connection = database.db,
                                    ![i].ready = database.tables = Tables]
    /\ UNCHANGED <<users, now, clockPlan, history, board, database>>

NextStartup ==
    \/ initializeDatabaseCall
    \/ \E i \in DOMAIN requests : openResolved(i)
    \/ \E i \in DOMAIN requests : createUsersTable(i)
    \/ \E i \in DOMAIN requests : createPostsTable(i)
    \/ \E i \in DOMAIN requests : createIndexes(i)

SpecStartup == InitStartup /\ [][NextStartup]_vars

\* ================================================================== claims
IsNullPair(row) ==
    row.verification_token = NULL_TOKEN /\ row.verification_expires = NULL_TIME
HasTokenPair(row) ==
    row.verification_token # NULL_TOKEN /\ row.verification_expires # NULL_TIME
Verified(row) ==
    [row EXCEPT !.is_verified = TRUE,
                !.verification_token = NULL_TOKEN,
                !.verification_expires = NULL_TIME]
Stored(token) == \E u \in UserIds : users[u].refresh_token = token
RefreshAccepted(token) == refreshTokenResult(users, now, token).response.ok

\* C1: in every reachable state a user whose is_verified is TRUE has
\* verification_token = NULL and verification_expires = NULL.
C1_VerifiedHasNoToken ==
    \A u \in UserIds : users[u].is_verified => IsNullPair(users[u])

\* A verified user who has logged in: register, verifyEmail and login have acted.
C1_Witness ==
    \E u \in UserIds : users[u].is_verified /\ users[u].refresh_token # NULL_JWT

\* C2 as stated: in every reachable state a user whose is_verified is FALSE has a
\* non-null verification_token together with a non-null verification_expires.
C2_UnverifiedHasToken ==
    \A u \in UserIds : ~users[u].is_verified => HasTokenPair(users[u])

\* C2 amended: a user whose is_verified is FALSE has either a non-null token
\* together with a non-null expiry, or, once cleanupTokens has swept the row, both
\* NULL with the one-hour expiry instant strictly in the past.
C2_UnverifiedHasTokenOrWasSwept ==
    \A u \in UserIds :
        ~users[u].is_verified =>
            \/ HasTokenPair(users[u])
            \/ /\ IsNullPair(users[u])
               /\ users[u].created_at + VERIFICATION_EXPIRES < now

\* An unverified row that cleanupTokens has swept.
C2_Witness ==
    \E u \in UserIds : ~users[u].is_verified /\ IsNullPair(users[u])

\* C3: every user is created with is_verified = FALSE, no row disappears, and no
\* step takes a user's is_verified from TRUE back to FALSE (so the step from
\* unverified to verified happens at most once per user).
C3_VerifiedIsOneWay ==
    [][ /\ \A u \in DOMAIN users :
              /\ u \in DOMAIN users'
              /\ users[u].is_verified => users'[u].is_verified
        /\ \A u \in DOMAIN users' \ DOMAIN users : ~users'[u].is_verified ]_vars

\* A user who was verified and has since logged in and out, still verified.
C3_Witness ==
    \E u \in UserIds : users[u].is_verified /\ u \in loggedOut

\* C4: verifyEmail(token) succeeds exactly when some row has that token, an
\* expiry strictly later than now and is_verified = FALSE; on success exactly
\* that row becomes verified with token and expiry NULL, and on failure the
\* table is unchanged.
C4_VerifyEmailGuard ==
    \A token \in VerificationTokens :
        LET matching == { u \in UserIds : /\ users[u].verification_token = token
                                          /\ users[u].verification_expires > now
                                          /\ ~users[u].is_verified }
            result == verifyEmailResult(users, now, token)
        IN /\ result.response.ok <=> matching # {}
           /\ matching # {} =>
                 \E u \in matching : result.users = [users EXCEPT ![u] = Verified(users[u])]
           /\ matching = {} => result.users = users

\* One user verified while another row is still waiting.
C4_Witness ==
    /\ consumed # {}
    /\ \E u \in UserIds : ~users[u].is_verified /\ HasTokenPair(users[u])

\* C5: once verifyEmail(token) has succeeded, verifyEmail with the same token
\* fails in every later state.
C5_ConsumedTokenFails ==
    \A token \in consumed : ~verifyEmailResult(users, now, token).response.ok

\* A token was consumed and a second user has registered since.
C5_Witness ==
    consumed # {} /\ Len(users) = 2

\* C6: a stored expiry is exactly one hour after the row's creation, and
\* verifyEmail with the token of a still-unverified row succeeds exactly at the
\* times strictly less than one hour after its creation.
C6_OneHourWindow ==
    \A u \in UserIds :
        /\ users[u].verification_expires # NULL_TIME =>
              users[u].verification_expires = users[u].created_at + VERIFICATION_EXPIRES
        /\ (~users[u].is_verified /\ users[u].verification_token # NULL_TOKEN) =>
              ( verifyEmailResult(users, now, users[u].verification_token).response.ok
                  <=> now < users[u].created_at + VERIFICATION_EXPIRES )

\* The expiry instant itself: exactly one hour after creation, token still stored.
C6_Witness ==
    \E u \in UserIds :
        /\ ~users[u].is_verified
        /\ users[u].verification_token # NULL_TOKEN
        /\ now = users[u].created_at + VERIFICATION_EXPIRES

\* C7: refreshToken(T) succeeds only if T carries the server's signature, has
\* not expired, is of kind refresh and equals the refresh_token stored on some
\* row; when it fails the table is unchanged.
C7_RefreshNeedsValidStoredToken ==
    \A presented \in PresentedTokens :
        LET result == refreshTokenResult(users, now, presented) IN
        /\ result.response.ok =>
              /\ presented.key = JWT_SECRET
              /\ now < presented.exp
              /\ presented.type = "refresh"
              /\ Stored(presented)
        /\ ~result.response.ok => result.users = users

\* A refresh has succeeded, and a client still holds an unexpired, well-signed
\* refresh token that is stored on no row.
C7_Witness ==
    /\ redeemed # {}
    /\ \E token \in IssuedRefresh : verifyRefreshToken(token, now) # NULL_ID /\ ~Stored(token)

\* C8 as stated: after refreshToken(T) has succeeded, refreshToken(T) fails at
\* every later time, the second in which T was issued included.
C8_RedeemedTokenFails ==
    \A token \in redeemed : ~RefreshAccepted(token)

\* C9 as stated: a refresh token issued by a login is not accepted once a later
\* login of the same user has succeeded.
C9_SupersededTokenFails ==
    \A token \in superseded : ~RefreshAccepted(token)

\* C10: after a successful logout of u and no login of u since, u's stored
\* refresh_token is NULL and refreshToken fails for every refresh token that
\* was issued to u.
C10_LogoutRevokes ==
    \A u \in loggedOut :
        /\ users[u].refresh_token = NULL_JWT
        /\ \A token \in IssuedRefresh : token.userId = u => ~RefreshAccepted(token)

\* A logged-out user whose last refresh token is still well signed and unexpired.
C10_Witness ==
    \E u \in loggedOut :
        \E token \in IssuedRefresh : token.userId = u /\ verifyRefreshToken(token, now) # NULL_ID

\* A header names a caller when it is "Bearer " followed by a token of kind
\* access that carries the server's signature and has not reached its expiry.
Resolvable(authHeader) ==
    /\ authHeader # NO_HEADER
    /\ authHeader.scheme = "Bearer "
    /\ authHeader.token.type = "access"
    /\ authHeader.token.key = JWT_SECRET
    /\ now < authHeader.token.iat + ACCESS_TOKEN_EXPIRES

\* C11: with a resolvable caller logout returns true and leaves the caller's
\* refresh_token NULL, whether or not anything was stored, and a second logout
\* returns true again and leaves the table as the first left it; with no
\* resolvable caller it returns false and the table is unchanged.
C11_LogoutIdempotent ==
    \A authHeader \in Headers :
        LET once  == logoutResult(users, now, authHeader)
            twice == logoutResult(once.users, now, authHeader)
        IN IF Resolvable(authHeader)
               THEN /\ once.response = TRUE
                    /\ once.users[authHeader.token.userId].refresh_token = NULL_JWT
                    /\ twice.response = TRUE
                    /\ twice.users = once.users
               ELSE /\ once.response = FALSE
                    /\ once.users = users

\* A user who is already logged out still holds an access token that resolves,
\* while another client holds one that does not.
C11_Witness ==
    /\ \E authHeader \in Headers :
          Resolvable(authHeader) /\ authHeader.token.userId \in loggedOut
    /\ \E authHeader \in Headers :
          authHeader # NO_HEADER /\ ~Resolvable(authHeader)

\* C12: for every user and every instant of issue, the access token verifies
\* to null as a refresh token and refreshToken rejects it; the refresh token
\* verifies to null as an access token and as a bearer header; and each token
\* verified as its own kind before its expiry gives the user it was issued for.
C12_KindsNotInterchangeable ==
    \A u \in UserIds, t0 \in clockPlan :
        t0 <= now =>
            LET access  == generateAccessToken(u, t0)
                refresh == generateRefreshToken(u, t0)
            IN /\ verifyRefreshToken(access, now) = NULL_ID
               /\ ~RefreshAccepted(access)
               /\ verifyAccessToken(refresh, now) = NULL_ID
               /\ getUserIdFromAuthHeader(Bearer(refresh), now) = NULL_ID
               /\ now < t0 + ACCESS_TOKEN_EXPIRES => verifyAccessToken(access, now) = u
               /\ now < t0 + REFRESH_TOKEN_EXPIRES => verifyRefreshToken(refresh, now) = u

\* A client holds an unexpired access token next to the stored refresh token.
C12_Witness ==
    \E token \in IssuedRefresh :
        /\ Stored(token)
        /\ verifyAccessToken(AccessOf(token), now) = token.userId

\* C13: an access token is accepted exactly at the times less than 15 minutes
\* after its issue and a refresh token exactly at the times less than 7 days
\* after its issue; from its expiry instant on a token verifies to null.
C13_TokenExpiry ==
    \A u \in UserIds, t0 \in clockPlan :
        t0 <= now =>
            /\ verifyAccessToken(generateAccessToken(u, t0), now) # NULL_ID
                  <=> now - t0 < ACCESS_TOKEN_EXPIRES
            /\ verifyRefreshToken(generateRefreshToken(u, t0), now) # NULL_ID
                  <=> now - t0 < REFRESH_TOKEN_EXPIRES

\* The clock stands at the expiry instant of a token a client was given.
C13_Witness ==
    \E token \in IssuedRefresh : now = token.exp \/ now = AccessOf(token).exp

\* C14: getUserIdFromAuthHeader gives the user id in the token when the header
\* is "Bearer " followed by an unexpired access token with the server's
\* signature, and null for every other header.
C14_AuthHeader ==
    \A authHeader \in Headers :
        getUserIdFromAuthHeader(authHeader, now) =
            IF Resolvable(authHeader) THEN authHeader.token.userId ELSE NULL_ID

\* A client presents an access token past its expiry in a Bearer header.
C14_Witness ==
    \E token \in IssuedRefresh :
        /\ Bearer(AccessOf(token)) \in Headers
        /\ now >= AccessOf(token).exp

\* C16: login with an unknown email fails with "no such email"; with a known
\* email and a password that does not match, with "wrong password", verified
\* or not; with the matching password and is_verified = FALSE, with "email not
\* verified"; and it succeeds exactly when the email exists, the password
\* matches and the user is verified.
C16_LoginErrors ==
    \A email \in LoginEmails, password \in LoginPasswords :
        LET response == loginResult(users, now, email, password).response
            rows     == { u \in UserIds : users[u].email = email }
        IN /\ rows = {} => ~response.ok /\ response.message = "NO_SUCH_EMAIL"
           /\ \A u \in rows :
                 LET matches == users[u].password_hash = hashPassword(password) IN
                 /\ ~matches => ~response.ok /\ response.message = "WRONG_PASSWORD"
                 /\ (matches /\ ~users[u].is_verified) =>
                        ~response.ok /\ response.message = "EMAIL_NOT_VERIFIED"
                 /\ (matches /\ users[u].is_verified) => response.ok
           /\ response.ok =>
                 \E u \in rows : /\ users[u].password_hash = hashPassword(password)
                                 /\ users[u].is_verified

\* A verified user and an unverified user are both registered.
C16_Witness ==
    /\ \E u \in UserIds : users[u].is_verified
    /\ \E u \in UserIds : ~users[u].is_verified

\* C17: a successful login of user u returns an access token and a refresh
\* token whose subject is u, and the table it leaves is the old one with u's
\* refresh_token replaced by the returned refresh token.
C17_LoginStoresToken ==
    \A email \in LoginEmails, password \in LoginPasswords :
        LET result == loginResult(users, now, email, password) IN
        result.response.ok =>
            \E u \in UserIds :
                /\ users[u].email = email
                /\ result.response.userId = u
                /\ result.response.accessToken.userId = u
                /\ result.response.accessToken.type = "access"
                /\ result.response.refreshToken.userId = u
                /\ result.response.refreshToken.type = "refresh"
                /\ result.users =
                      [users EXCEPT ![u].refresh_token = result.response.refreshToken]

\* Two users hold stored refresh tokens from an earlier second, and a login
\* now would replace one of them.
C17_Witness ==
    /\ Len(users) = 2
    /\ \A u \in UserIds :
          users[u].refresh_token # NULL_JWT /\ users[u].refresh_token.iat < now
    /\ \E email \in LoginEmails, password \in LoginPasswords :
          loginResult(users, now, email, password).response.ok

\* The strings of the inputs that break a rule of the validators.
InvalidEmails    == {EmailBad, EmailTwoAt, EmailBlank}
InvalidUsernames == {NameBad, NameShort, NameLong}
InvalidPasswords == {PwWeak, PwShort, PwNoDigit}

\* C18: when the email, the username or the password is invalid, register
\* returns success = false with emailSent = false, leaves the users table
\* unchanged and calls the mailer for nothing.
C18_RegisterValidatesFirst ==
    \A email \in RegisterEmails, username \in RegisterUsernames,
       password \in RegisterPasswords :
        ( email \in InvalidEmails \/ username \in InvalidUsernames
                                  \/ password \in InvalidPasswords ) =>
            \A mailOk \in BOOLEAN :
                LET result == registerResult(users, now, email, username, password, mailOk) IN
                /\ result.response.success = FALSE
                /\ result.response.emailSent = FALSE
                /\ result.users = users
                /\ result.mail = << >>

\* One user is registered; a second registration with a new email and name and
\* nothing wrong but the password would be the next row.
C18_Witness ==
    /\ Len(users) = 1
    /\ users[1].email = EmailA
    /\ registerResult(users, now, EmailD, NameHangul, PwGood, TRUE).response.success

\* C19: whenever register has persisted the user it returns success = true
\* with emailSent equal to what the mailer reported, and the table it leaves is
\* the old one followed by the new row, unverified, with the token that was
\* mailed and its expiry; register reports success only when it persisted.
C19_RegisterSucceedsWithoutMail ==
    \A reg \in Registrations, mailOk \in BOOLEAN :
        LET result == registerResult(users, now, reg.email, reg.username, reg.password, mailOk)
        IN /\ result.users # users =>
                 /\ result.response.success = TRUE
                 /\ result.response.emailSent = mailOk
                 /\ Len(result.users) = Len(users) + 1
                 /\ \A u \in UserIds : result.users[u] = users[u]
                 /\ LET row == result.users[Len(result.users)] IN
                    /\ row.email = reg.email
                    /\ row.username = reg.username
                    /\ ~row.is_verified
                    /\ HasTokenPair(row)
                    /\ result.mail = << [to |-> reg.email, token |-> row.verification_token] >>
           /\ result.response.success => result.users # users

\* A first user has verified and a second registration would be persisted.
C19_Witness ==
    /\ Len(users) = 1
    /\ users[1].is_verified
    /\ \E reg \in Registrations :
          registerResult(users, now, reg.email, reg.username, reg.password, FALSE).users # users

\* C20 as stated: a registration with valid fields whose email a row already
\* has returns success = false with the message that names the email, and
\* leaves the table unchanged.
C20_DuplicateEmailNamesEmail ==
    \A reg \in Registrations, mailOk \in BOOLEAN :
        ( /\ reg.email \in {EmailA, EmailD}
          /\ reg.username \in {NameAlice, NameBob}
          /\ reg.password = PwGood
          /\ \E u \in UserIds : users[u].email = reg.email ) =>
            LET result == registerResult(users, now, reg.email, reg.username, reg.password, mailOk)
            IN /\ result.response.success = FALSE
               /\ result.response.message = "EMAIL_IN_USE"
               /\ result.users = users

\* C15 as stated: the posts table changes only for a request whose caller
\* getUserIdFromAuthHeader resolved; no post was inserted or deleted for a
\* request without one.
C15_PostsChangeOnlyForCaller ==
    unguarded = {}

\* C22: createPost with the access token of a user whose is_verified is FALSE
\* fails with the verify-your-email error for every title and content, the
\* well-formed ones and the others, and the posts table is unchanged.
C22_UnverifiedCannotPost ==
    \A u \in UserIds, t0 \in clockPlan :
        ( ~users[u].is_verified /\ t0 <= now /\ now < t0 + ACCESS_TOKEN_EXPIRES ) =>
            \A title \in Titles, content \in Contents :
                LET result == createPostResult(users, posts, postSeq, now,
                                               Bearer(generateAccessToken(u, t0)),
                                               title, content)
                IN /\ ~result.response.ok
                   /\ result.response.message = "EMAIL_NOT_VERIFIED"
                   /\ result.posts = posts
                   /\ result.seq = postSeq

\* A user is unverified while the board has posts and access tokens are good.
C22_Witness ==
    /\ \E u \in UserIds : ~users[u].is_verified
    /\ posts # {}
    /\ now < ACCESS_TOKEN_EXPIRES

\* C23: for a resolved caller, who is verified, createPost succeeds exactly
\* when title and content are non-empty after trimming, the title has at most
\* 200 characters and the content at most 10000; it then adds one post with
\* the next id, the trimmed title and content and the caller as author, and
\* otherwise leaves the posts table unchanged.
C23_CreatePostValidation ==
    \A authHeader \in Headers, title \in Titles, content \in Contents :
        ( Resolvable(authHeader) /\ users[authHeader.token.userId].is_verified ) =>
            LET result == createPostResult(users, posts, postSeq, now, authHeader,
                                           title, content)
                valid  == /\ title.body > 0
                          /\ content.body > 0
                          /\ title.body + title.pad <= MAX_TITLE_LENGTH
                          /\ content.body + content.pad <= MAX_CONTENT_LENGTH
            IN /\ result.response.ok <=> valid
               /\ valid =>
                     result.posts = posts \cup
                         {[ id        |-> postSeq + 1,
                            title     |-> Text(title.body, 0),
                            content   |-> Text(content.body, 0),
                            author_id |-> authHeader.token.userId ]}
               /\ ~valid => result.posts = posts /\ result.seq = postSeq

\* A post with a title of 200 characters and a content of 10000 is stored.
C23_Witness ==
    \E p \in posts : /\ p.title = Text(MAX_TITLE_LENGTH, 0)
                      /\ p.content = Text(MAX_CONTENT_LENGTH, 0)
                      /\ p.author_id \in UserIds

\* C24 as stated: every stored post has a non-empty title and a non-empty
\* content, a title of at most 200 characters and a content of at most 10000.
C24_PostsWellFormed ==
    \A p \in posts : /\ p.title.body > 0
                      /\ p.content.body > 0
                      /\ p.title.body + p.title.pad <= MAX_TITLE_LENGTH
                      /\ p.content.body + p.content.pad <= MAX_CONTENT_LENGTH

\* C25 as stated: the author_id of every stored post is the id of an existing
\* user who is verified.
C25_PostsByVerifiedUsers ==
    \A p \in posts : p.author_id \in UserIds /\ users[p.author_id].is_verified

\* C26: deletePost(postId, callerId) removes the post and reports a change
\* exactly when a post with that id has that author, and otherwise leaves the
\* table unchanged; the API answers a caller who is not the author and a caller
\* who names no post with the same failure.
C26_DeleteOnlyOwn ==
    /\ \A callerId \in UserIds, postId \in 1..(MaxPosts + 1) :
          LET own    == { p \in posts : p.id = postId /\ p.author_id = callerId }
              result == deletePost(posts, postId, callerId)
          IN /\ result.changes > 0 <=> own # {}
             /\ result.posts = posts \ own
             /\ Cardinality(own) <= 1
    /\ \A authHeader \in Headers, id \in PostIdArgs :
          ( Resolvable(authHeader) /\ id \in {<<"1">>, <<"2">>, <<"1", "x">>} ) =>
              LET postId == IF id = <<"2">> THEN 2 ELSE 1
                  own    == { p \in posts : /\ p.id = postId
                                            /\ p.author_id = authHeader.token.userId }
                  result == deletePostResult(users, posts, now, authHeader, id)
              IN /\ result.response.ok <=> own # {}
                 /\ result.response.ok => result.posts = posts \ own
                 /\ ~result.response.ok =>
                       /\ result.response.message = "NOT_FOUND_OR_FORBIDDEN"
                       /\ result.posts = posts

\* One post of the first user is stored and another post has been deleted,
\* while the second user's access token is still good.
C26_Witness ==
    /\ \E p \in posts : p.author_id = 1
    /\ postSeq > Cardinality(posts)
    /\ now < ACCESS_TOKEN_EXPIRES

\* C27: cleanupTokens sets verification_token and verification_expires to NULL
\* in exactly the rows that are unverified with an expiry strictly before now,
\* returns how many they are, and leaves every other row and every other
\* column as it was.
C27_CleanupFrame ==
    LET expired == { u \in UserIds : /\ ~users[u].is_verified
                                     /\ users[u].verification_expires # NULL_TIME
                                     /\ users[u].verification_expires < now }
        result  == cleanupTokensResult(users, now)
    IN /\ result.response = Cardinality(expired)
       /\ DOMAIN result.users = UserIds
       /\ \A u \in UserIds :
             result.users[u] =
                 IF u \in expired
                     THEN [users[u] EXCEPT !.verification_token = NULL_TOKEN,
                                           !.verification_expires = NULL_TIME]
                     ELSE users[u]

\* One user's token was swept while the other is verified and logged in.
C27_Witness ==
    /\ \E u \in UserIds : ~users[u].is_verified /\ IsNullPair(users[u])
    /\ \E u \in UserIds : users[u].is_verified /\ users[u].refresh_token # NULL_JWT

\* The requests that have been answered, and those among them that succeeded.
Answered == { i \in DOMAIN requests : requests[i].pc = "done" }
Succeeded == { i \in Answered : requests[i].ok }

\* Two requests overlap when one was called while the other was in flight.
Overlap(i, j) == i \in requests[j].open \/ j \in requests[i].open

\* C21: no two rows of the users table share an email, a username or a
\* verification token that is not NULL, and of the register requests that
\* name one email, or one username, at most one creates a user, however
\* their INSERT statements interleave.
C21_UniqueUsers ==
    /\ \A i, j \in UserIds :
          i # j =>
              /\ users[i].email # users[j].email
              /\ users[i].username # users[j].username
              /\ users[i].verification_token # NULL_TOKEN =>
                     users[i].verification_token # users[j].verification_token
    /\ \A i, j \in Succeeded :
          i # j =>
              /\ requests[i].email # requests[j].email
              /\ requests[i].username # requests[j].username
    /\ Cardinality(Succeeded) = Len(users)

\* Two register requests with one email and different usernames were in
\* flight together; the one called second created the user, the other failed.
C21_Witness ==
    \E i, j \in Answered :
        /\ i \in requests[j].open
        /\ requests[i].email = requests[j].email
        /\ requests[i].username # requests[j].username
        /\ requests[j].ok
        /\ ~requests[i].ok

\* The rows whose token a sweep has removed, and the sum of what the sweeps
\* answered so far have returned.
Swept == { u \in UserIds : ~users[u].is_verified /\ IsNullPair(users[u]) }

RECURSIVE Returned(_)
Returned(n) ==
    IF n = 0 THEN 0
    ELSE Returned(n - 1) +
         ( IF requests[n].op = "cleanupTokens" /\ requests[n].pc = "done"
               THEN requests[n].count ELSE 0 )

\* C28: a cleanupTokens that follows another in the same second changes no
\* row and returns 0, and when sweeps overlap every swept row is counted by
\* exactly one of them: what the sweeps returned adds up to the swept rows.
C28_CleanupIdempotent ==
    /\ LET first  == cleanupTokensResult(users, now)
           second == cleanupTokensResult(first.users, now)
       IN /\ second.response = 0
          /\ second.users = first.users
    /\ Returned(Len(requests)) = Cardinality(Swept)

\* Two sweeps were in flight together after the hour; the one called second
\* removed the expired tokens and the other found nothing left.
C28_Witness ==
    \E i, j \in Answered :
        /\ requests[i].op = "cleanupTokens"
        /\ requests[j].op = "cleanupTokens"
        /\ i \in requests[j].open
        /\ requests[j].count > 0
        /\ requests[i].count = 0
        /\ requests[i].at = requests[j].at

\* The tokens that were mailed to the two people who registered.
MailedTokens == { SessionUsers[u].verification_token : u \in DOMAIN SessionUsers }

\* C29: of the verifyEmail requests that carry one mailed token at most one
\* succeeds, and one does succeed once such a request has run before the
\* token's expiry; every verified row has neither token nor expiry; and no
\* row is both verified and counted by a sweep, however the statements of the
\* requests interleave.
C29_VerifyOnce ==
    /\ \A u \in UserIds : users[u].is_verified => IsNullPair(users[u])
    /\ \A token \in MailedTokens :
          LET asked  == { i \in Answered : /\ requests[i].op = "verifyEmail"
                                           /\ requests[i].token = token }
              won    == { i \in asked : requests[i].ok }
              inTime == { i \in asked : requests[i].at < VERIFICATION_EXPIRES }
          IN /\ Cardinality(won) <= 1
             /\ inTime # {} => won # {}
    /\ Cardinality({ i \in Succeeded : requests[i].op = "verifyEmail" })
           = Cardinality({ u \in UserIds : users[u].is_verified })
    /\ Cardinality({ u \in UserIds : users[u].is_verified }) + Returned(Len(requests))
           <= Len(users)

\* Two verifyEmail requests with one mailed token and a sweep were all in
\* flight together: the verifyEmail called second succeeded, the other
\* failed, and the sweep, after the hour, removed the other row's token only.
C29_Witness ==
    \E i, j, k \in Answered :
        /\ requests[i].op = "verifyEmail"
        /\ requests[j].op = "verifyEmail"
        /\ requests[k].op = "cleanupTokens"
        /\ requests[i].token = requests[j].token
        /\ requests[i].token \in MailedTokens
        /\ i \in requests[j].open
        /\ {i, j} \subseteq requests[k].open
        /\ requests[j].ok
        /\ ~requests[i].ok
        /\ requests[k].count = 1

\* The post a deletePost request names, the caller its header carries, and
\* the author of each post of the board.
PostOf(r) == IF r.id = <<"1">> THEN 1 ELSE IF r.id = <<"2">> THEN 2 ELSE 0
CallerOf(r) == IF r.authHeader = NO_HEADER THEN NULL_ID ELSE r.authHeader.token.userId
AuthorOf(postId) == (CHOOSE p \in BoardPosts.posts : p.id = postId).author_id

\* C30: of the deletePost requests that name one post at most one succeeds,
\* none succeeds that is not its author's, one does succeed once a request
\* of its author has been answered, and the post is gone exactly when one
\* has succeeded, however the DELETE statements interleave.
C30_DeleteOnce ==
    \A postId \in { p.id : p \in BoardPosts.posts } :
        LET asked   == { i \in Answered : PostOf(requests[i]) = postId }
            won     == { i \in asked : requests[i].ok }
            byOwner == { i \in asked : CallerOf(requests[i]) = AuthorOf(postId) }
        IN /\ Cardinality(won) <= 1
           /\ won \subseteq byOwner
           /\ byOwner # {} => won # {}
           /\ won = {} <=> \E p \in posts : p.id = postId

\* Two requests of the author and one of the other member, all for the first
\* post, were in flight together; the author's second request succeeded.
C30_Witness ==
    \E i, j, k \in Answered :
        /\ PostOf(requests[i]) = 1 /\ PostOf(requests[j]) = 1 /\ PostOf(requests[k]) = 1
        /\ CallerOf(requests[i]) = AuthorOf(1)
        /\ CallerOf(requests[j]) = AuthorOf(1)
        /\ CallerOf(requests[k]) \notin {NULL_ID, AuthorOf(1)}
        /\ i \in requests[j].open
        /\ {i, j} \subseteq requests[k].open
        /\ requests[j].ok
        /\ ~requests[i].ok
        /\ ~requests[k].ok

\* C35: every row with a stored refresh_token is verified, every refresh
\* token that login or refreshToken has returned names a verified user, and
\* a refreshToken that succeeds now issues its tokens to a verified user.
C35_TokensOnlyForVerified ==
    /\ \A u \in UserIds : users[u].refresh_token # NULL_JWT => users[u].is_verified
    /\ \A entry \in issued :
          /\ entry.token.userId \in UserIds
          /\ users[entry.token.userId].is_verified
    /\ \A presented \in PresentedTokens :
          LET response == refreshTokenResult(users, now, presented).response IN
          response.ok => users[response.userId].is_verified

\* A refreshToken has returned a token while the other user is unverified.
C35_Witness ==
    /\ \E entry \in issued : entry.by = "refreshToken"
    /\ \E u \in UserIds : ~users[u].is_verified

\* C36: a login that fails returns an error without tokens and leaves every
\* row as it was, the stored refresh_token of the user it named included.
C36_FailedLoginFrame ==
    \A email \in LoginEmails, password \in LoginPasswords :
        LET result == loginResult(users, now, email, password) IN
        ~result.response.ok =>
            /\ result.users = users
            /\ DOMAIN result.response = {"ok", "message"}

\* A user with a stored refresh token is named by a login with the wrong
\* password, while the other user could only fail for being unverified.
C36_Witness ==
    /\ \E u \in UserIds :
          /\ users[u].refresh_token # NULL_JWT
          /\ users[u].email \in LoginEmails
          /\ \E password \in LoginPasswords :
                users[u].password_hash # hashPassword(password)
    /\ \E u \in UserIds : ~users[u].is_verified /\ users[u].email \in LoginEmails

\* The rows whose token verifyEmail would accept now, and the rows the sweep
\* would clear now.
Acceptable ==
    { u \in UserIds :
          /\ users[u].verification_token # NULL_TOKEN
          /\ verifyEmailResult(users, now, users[u].verification_token).response.ok }
Sweepable ==
    { u \in UserIds : cleanupTokensResult(users, now).users[u] # users[u] }

\* C37: at every instant no row is both one that cleanupTokens would clear
\* and one whose token verifyEmail would accept, and a row whose expiry is
\* this very second is neither.
C37_SweepSparesValidTokens ==
    /\ Acceptable \cap Sweepable = {}
    /\ \A u \in UserIds :
          ( HasTokenPair(users[u]) /\ users[u].verification_expires = now ) =>
              u \notin Acceptable \cup Sweepable

\* One row would be swept now while the token of another is still accepted.
C37_Witness ==
    /\ Sweepable # {}
    /\ Acceptable # {}

\* An unverified row whose expiry has passed, swept or not.
Expired(us, u, t) ==
    /\ ~us[u].is_verified
    /\ us[u].verification_expires = NULL_TIME \/ us[u].verification_expires < t

\* C38: a user who is unverified with the expiry passed cannot log in, and
\* after any step of register, verifyEmail, login, refreshToken, logout,
\* cleanupTokens or the clock is still unverified with the expiry passed.
C38_ExpiredStaysUnverified ==
    [][ \A u \in UserIds :
            Expired(users, u, now) =>
                /\ \A password \in LoginPasswords :
                      ~loginResult(users, now, users[u].email, password).response.ok
                /\ u \in DOMAIN users'
                /\ Expired(users', u, now') ]_vars

\* A user is past the expiry with the token still on the row, and the other
\* user is verified and logged in.
C38_Witness ==
    /\ \E u \in UserIds : Expired(users, u, now) /\ HasTokenPair(users[u])
    /\ \E u \in UserIds : users[u].is_verified /\ users[u].refresh_token # NULL_JWT

\* C39: after a logout that returned true, the access token the user was
\* handed before still names the user until its own expiry: it is resolved
\* by getUserIdFromAuthHeader, a further logout returns true, and createPost
\* and deletePost of the user's post succeed with it.
C39_LogoutKeepsAccessTokens ==
    \A u \in loggedOut, token \in IssuedRefresh :
        ( token.userId = u /\ now < token.iat + ACCESS_TOKEN_EXPIRES ) =>
            LET authHeader == Bearer(AccessOf(token))
                created    == createPostResult(users, posts, postSeq, now, authHeader,
                                               Text(5, 0), Text(5, 0))
                deleted    == deletePostResult(users, created.posts, now, authHeader, <<"1">>)
            IN /\ getUserIdFromAuthHeader(authHeader, now) = u
               /\ logoutResult(users, now, authHeader).response
               /\ created.response.ok
               /\ created.response.id = 1
               /\ deleted.response.ok

\* A user has logged out, has no stored refresh token, and holds an access
\* token from an earlier second that has not expired.
C39_Witness ==
    \E u \in loggedOut, token \in IssuedRefresh :
        /\ token.userId = u
        /\ users[u].refresh_token = NULL_JWT
        /\ token.iat < now
        /\ now < token.iat + ACCESS_TOKEN_EXPIRES

\* C40: a stored refresh_token is a token of kind refresh whose subject is
\* the id of the row that holds it, and a refreshToken that succeeds finds
\* the subject of the token it was given, issues both new tokens to that
\* user and stores the new refresh token on that user's row.
C40_StoredTokenNamesItsRow ==
    /\ \A u \in UserIds :
          users[u].refresh_token # NULL_JWT =>
              /\ users[u].refresh_token.type = "refresh"
              /\ users[u].refresh_token.userId = u
    /\ \A presented \in PresentedTokens :
          LET result == refreshTokenResult(users, now, presented) IN
          result.response.ok =>
              /\ result.response.userId = presented.userId
              /\ result.response.accessToken.userId = presented.userId
              /\ result.response.refreshToken.userId = presented.userId
              /\ result.users =
                    [users EXCEPT ![presented.userId].refresh_token =
                                      result.response.refreshToken]

\* Both users hold a stored refresh token, one of them from a refreshToken.
C40_Witness ==
    /\ \A u \in UserIds : users[u].refresh_token # NULL_JWT
    /\ \E entry \in issued : entry.by = "refreshToken" /\ Stored(entry.token)

\* C31 as stated: however the calls of initializeDatabase overlap, the
\* process opens the database connection at most once.
C31_OpenedOnce == database.opened <= 1

\* C34 as stated: every call of initializeDatabase that has returned db to
\* its request returned it when the tables users and posts both existed.
C34_TablesBeforeHandle ==
    \A i \in Answered : requests[i].op = "initializeDatabase" => requests[i].ready

\* C32 as stated, for a presented token that is older than this second: of
\* the refreshToken requests that present one stored token at most one
\* returns a new token pair, however their statements interleave.
C32_RedeemedOnce ==
    \A token \in IssuedRefresh :
        Cardinality({ i \in Succeeded : /\ requests[i].op = "refreshToken"
                                        /\ requests[i].presented = token
                                        /\ requests[i].refreshToken # token }) <= 1

\* C33 as stated: once a logout of a user has returned true and no request
\* is in flight any more, the user's refresh_token is NULL and refreshToken
\* accepts no refresh token that was ever returned for that user.
C33_LogoutWins ==
    \A u \in loggedOut :
        InFlight = {} =>
            /\ users[u].refresh_token = NULL_JWT
            /\ \A token \in IssuedRefresh : token.userId = u => ~RefreshAccepted(token)

====
